---------------------------- MODULE Spec2Model ----------------------------
(***************************************************************************)
(* DownloadsCleaner (src/downloadsCleaner.py): one Tk window whose         *)
(* "Scan & Organize" button runs organize_downloads over the directory     *)
(* typed in dir_entry.                                                     *)
(*                                                                         *)
(* A file name is a sequence of tokens: "." is the dot, every other token  *)
(* is a run of characters holding neither a dot nor a path separator.      *)
(* A path is a sequence of names, the empty path being the filesystem      *)
(* root.  The filesystem `fs' maps every existing path to its node.        *)
(***************************************************************************)
EXTENDS Integers, Sequences, FiniteSets, TLC

VARIABLES
    fs,                 \* the filesystem: path -> [kind, data, mtime]
    trash,              \* the recycle bin send2trash fills
    dir_entry,          \* self.dir_entry: the directory to scan
    test_mode,          \* self.test_mode
    months_threshold,   \* self.months_threshold
    log_file,           \* self.log_file
    now,                \* the wall clock, in seconds
    pc,                 \* "idle", or "scan" inside the os.scandir loop
    run,                \* number of organize_downloads calls so far
    pending,            \* names os.scandir has still to yield
    log,                \* every line log_action has written or printed
    asked,              \* every answer messagebox.askyesno has returned
    placed,             \* every call of move_item
    result,             \* how the last call of organize_downloads ended
    faults,             \* calls the environment has made fail so far
    started,            \* the widget values each pass has read
    passes_left,        \* presses of the button still to come
    q_item, q_folder, q_dest  \* one call of get_destination_folder

vars == <<fs, trash, dir_entry, test_mode, months_threshold, log_file, now,
          pc, run, pending, log, asked, placed, result, faults, started, passes_left,
          q_item, q_folder, q_dest>>

(***************************************************************************)
(* Bounds of the model.                                                    *)
(***************************************************************************)
MaxPasses == 2        \* presses of the button in one session (SpecSession)
MaxFaults == 1        \* calls the environment makes fail in one behaviour
MaxNameLen == 3       \* tokens of a name handed to get_destination_folder

(***************************************************************************)
(* Paths: os.path.join, os.path.basename, os.path.splitext, str.lower,     *)
(* str.startswith.                                                         *)
(***************************************************************************)
join(p, name) == Append(p, name)

basename(p) == p[Len(p)]

dirname(p) == SubSeq(p, 1, Len(p) - 1)

IsPrefix(a, b) == Len(a) <= Len(b) /\ SubSeq(b, 1, Len(a)) = a

\* str.lower on one token: the upper-case and mixed-case tokens of the model
LowerToken(t) ==
    CASE t = "JPG" -> "jpg"
      [] t = "Jpg" -> "jpg"
      [] t = "TXT" -> "txt"
      [] t = "MP3" -> "mp3"
      [] OTHER -> t

lower(s) == [i \in 1..Len(s) |-> LowerToken(s[i])]

\* os.path.splitext(name)[1]: from the last dot on, unless only dots precede it
splitext_ext(name) ==
    LET dots == {i \in 1..Len(name) : name[i] = "."}
        last == IF dots = {} THEN 0
                ELSE CHOOSE i \in dots : \A j \in dots : j <= i
        lead == last > 0 /\ \E j \in 1..(last - 1) : name[j] # "."
    IN  IF lead THEN SubSeq(name, last, Len(name)) ELSE <<>>

LogPrefix == "download_organizer_log_"

startswith_log(name) == Len(name) >= 1 /\ name[1] = LogPrefix

\* self.folder_mapping, in the order of the dict
Categories == <<"Images", "Music", "Videos", "Documents", "Others">>

folder_mapping(c) ==
    CASE c = "Images" -> {<<".", "jpg">>, <<".", "jpeg">>, <<".", "png">>,
                          <<".", "gif">>, <<".", "bmp">>, <<".", "svg">>,
                          <<".", "webp">>}
      [] c = "Music" -> {<<".", "mp3">>, <<".", "wav">>, <<".", "flac">>,
                         <<".", "aac">>, <<".", "ogg">>, <<".", "m4a">>}
      [] c = "Videos" -> {<<".", "mp4">>, <<".", "avi">>, <<".", "mov">>,
                          <<".", "mkv">>, <<".", "wmv">>, <<".", "flv">>,
                          <<".", "webm">>}
      [] c = "Documents" -> {<<".", "pdf">>, <<".", "docx">>, <<".", "xlsx">>,
                             <<".", "pptx">>, <<".", "txt">>}
      [] OTHER -> {}

DownloadedName(label) == <<"Downloaded ", label>>

\* the extension with .lower() forgotten
file_ext_raw(item_path) == splitext_ext(basename(item_path))

file_ext(item_path) == lower(splitext_ext(basename(item_path)))

get_destination_folder(root, item_path, is_folder) ==
    IF is_folder
    THEN join(root, DownloadedName("Folders"))
    ELSE LET ext == file_ext(item_path)
             hits == {i \in 1..Len(Categories) : ext \in folder_mapping(Categories[i])}
         IN  IF hits = {}
             THEN join(root, DownloadedName("Others"))
             ELSE join(root, DownloadedName(
                      Categories[CHOOSE i \in hits : \A j \in hits : i <= j]))

(***************************************************************************)
(* The filesystem calls the program makes: os.path.exists, entry.is_file,  *)
(* entry.is_dir, os.scandir, os.makedirs, open(..., "a"), send2trash and   *)
(* shutil.move.                                                            *)
(***************************************************************************)
DirNode == [kind |-> "dir", data |-> "", mtime |-> 0]

exists(f, p) == p \in DOMAIN f

is_dir(f, p) == p \in DOMAIN f /\ f[p].kind = "dir"

is_file(f, p) == p \in DOMAIN f /\ f[p].kind = "file"

\* the names os.scandir(d) yields
scandir(f, d) ==
    {basename(p) : p \in {q \in DOMAIN f : Len(q) = Len(d) + 1 /\ IsPrefix(d, q)}}

\* os.makedirs(p): p and every missing ancestor become directories
makedirs(f, p) ==
    LET new == {SubSeq(p, 1, k) : k \in 0..Len(p)} \ DOMAIN f
    IN  [q \in DOMAIN f \cup new |-> IF q \in DOMAIN f THEN f[q] ELSE DirNode]

\* the path and everything below it leave the filesystem
unlink(f, p) == [q \in {r \in DOMAIN f : ~IsPrefix(p, r)} |-> f[q]]

\* open(p, "a") works when the parent is a directory and p is none
can_append(f, p) == Len(p) >= 1 /\ is_dir(f, dirname(p)) /\ ~is_dir(f, p)

\* open(p, "a") and write: the file is created when missing, its mtime is set
append_file(f, p, t) ==
    [q \in DOMAIN f \cup {p} |->
        IF q = p THEN [kind |-> "file", data |-> "log", mtime |-> t] ELSE f[q]]

\* os.rename(src, dst): the subtree at src is at dst afterwards; a file at dst
\* is replaced
rename(f, src, dst) ==
    LET moved == {q \in DOMAIN f : IsPrefix(src, q)}
        gone  == {q \in DOMAIN f : IsPrefix(dst, q)}
        to(q) == dst \o SubSeq(q, Len(src) + 1, Len(q))
        from(q) == src \o SubSeq(q, Len(dst) + 1, Len(q))
    IN  [q \in ((DOMAIN f \ moved) \ gone) \cup {to(r) : r \in moved} |->
            IF IsPrefix(dst, q) THEN f[from(q)] ELSE f[q]]

\* shutil.move(src, dst): the real destination, and whether the move raises
real_dst(f, src, dst) == IF is_dir(f, dst) THEN join(dst, basename(src)) ELSE dst

move_raises(f, src, dst) ==
    LET real == real_dst(f, src, dst)
    IN  \/ ~exists(f, src)
        \/ is_dir(f, dst) /\ exists(f, real)
        \/ ~is_dir(f, dirname(real))
        \/ is_dir(f, src) /\ IsPrefix(src, real)
        \/ is_dir(f, src) /\ exists(f, real)

shutil_move(f, src, dst) == rename(f, src, real_dst(f, src, dst))

(***************************************************************************)
(* The methods of DownloadsCleaner.  A method takes the machine `m' it     *)
(* starts in, a record of everything a handler can change, and gives the   *)
(* machine it leaves.  m.raised says that an exception is propagating: a   *)
(* method entered with it set does nothing.  `F' names the calls that the  *)
(* environment makes fail while one loop iteration runs.                   *)
(***************************************************************************)
SecondsPerMonth == 30 * 24 * 60 * 60

Faults == [mtime : BOOLEAN, trash : BOOLEAN, mkdir : BOOLEAN, move : BOOLEAN,
           logAt : 0..3]

NoFault == [mtime |-> FALSE, trash |-> FALSE, mkdir |-> FALSE, move |-> FALSE,
            logAt |-> 0]

Machine(lf, r, todo, mode, t) ==
    [fs |-> fs, trash |-> trash, log |-> log, asked |-> asked,
     placed |-> placed, pending |-> todo, lf |-> lf, run |-> r, nlog |-> 0,
     test |-> mode, time |-> t, nfault |-> 0, raised |-> FALSE, keep |-> TRUE]

Msg(op, src, dst) == [op |-> op, src |-> src, dst |-> dst]

generate_log_file(downloads_path, timestamp) ==
    join(downloads_path, <<LogPrefix, timestamp, ".", "txt">>)

\* log_action in test mode: print only
log_print(m, msg) ==
    [m EXCEPT !.log = @ \cup {[run |-> m.run, file |-> <<>>, msg |-> msg]}]

\* log_action in live mode: append to self.log_file, then print
log_write(m, msg, F) ==
    LET n == m.nlog + 1
    IN  IF F.logAt = n
        THEN [m EXCEPT !.raised = TRUE, !.nlog = n, !.nfault = @ + 1]
        ELSE IF ~can_append(m.fs, m.lf)
        THEN [m EXCEPT !.raised = TRUE, !.nlog = n]
        ELSE [m EXCEPT !.fs = append_file(@, m.lf, m.time),
                       !.log = @ \cup {[run |-> m.run, file |-> m.lf, msg |-> msg]},
                       !.nlog = n]

\* log_action with the test-mode branch forgotten
log_action_always_writes(m, msg, F) ==
    IF m.raised THEN m ELSE log_write(m, msg, F)

log_action(m, msg, F) ==
    IF m.raised THEN m
    ELSE IF m.test THEN log_print(m, msg)
    ELSE log_write(m, msg, F)

file_has_expired(f, file_path, F) ==
    IF F.mtime \/ ~exists(f, file_path)
    THEN FALSE
    ELSE (now - f[file_path].mtime) >= months_threshold * SecondsPerMonth

\* the os.path.getmtime of line 83, when the environment makes it fail
getmtime_fault(m, F) == [m EXCEPT !.nfault = IF F.mtime THEN @ + 1 ELSE @]

\* send2trash inside its try/except
try_send2trash(m, file_path, F) ==
    IF m.raised THEN m
    ELSE IF F.trash \/ ~exists(m.fs, file_path)
    THEN log_action([m EXCEPT !.nfault = IF F.trash THEN @ + 1 ELSE @],
                    Msg("Error deleting file", file_path, <<>>), F)
    ELSE [m EXCEPT !.fs = unlink(@, file_path),
                   !.trash = @ \cup {[path |-> file_path,
                                      data |-> m.fs[file_path].data]}]

\* result is the answer of messagebox.askyesno: TRUE is "Yes, delete"
show_popup(m, file_path, answer, F) ==
    LET m1 == [m EXCEPT !.asked = @ \cup {[run |-> m.run, path |-> file_path,
                                          delete |-> answer]}]
    IN  IF answer
        THEN LET m2 == log_action(m1, Msg("Deleted", file_path, <<>>), F)
                 m3 == IF ~m.test THEN try_send2trash(m2, file_path, F) ELSE m2
             IN  [m3 EXCEPT !.keep = FALSE]
        ELSE [log_action(m1, Msg("Kept", file_path, <<>>), F) EXCEPT !.keep = TRUE]

\* lines 128-129: the destination folder is created when missing, in either
\* mode; `seen' says whether the open os.scandir still yields the new entry
ensure_dest(m, dest_folder, F, seen) ==
    IF m.raised \/ exists(m.fs, dest_folder) THEN m
    ELSE IF F.mkdir THEN [m EXCEPT !.raised = TRUE, !.nfault = @ + 1]
    ELSE [m EXCEPT !.fs = makedirs(@, dest_folder),
                   !.pending = IF seen /\ dirname(dest_folder) = dir_entry
                               THEN @ \cup {basename(dest_folder)} ELSE @]

\* lines 135-142: shutil.move inside its try/except
try_move(m, item_path, dest_path, F) ==
    IF m.raised \/ m.test THEN m
    ELSE IF F.move \/ move_raises(m.fs, item_path, dest_path)
    THEN log_action([m EXCEPT !.nfault = IF F.move THEN @ + 1 ELSE @],
                    Msg("Error moving item", item_path, <<>>), F)
    ELSE [m EXCEPT !.fs = shutil_move(@, item_path, dest_path)]

move_item(m, item_path, is_folder, F, seen) ==
    IF m.raised THEN m
    ELSE
    LET m0 == [m EXCEPT !.placed = @ \cup {[run |-> m.run, path |-> item_path]}]
        item_name == basename(item_path)
        dest_folder == get_destination_folder(dir_entry, item_path, is_folder)
        dest_path == join(dest_folder, item_name)
    IN  IF startswith_log(item_name)
        THEN log_action(m0, Msg("Skipped moving log file", item_path, <<>>), F)
        ELSE try_move(
                 log_action(ensure_dest(m0, dest_folder, F, seen),
                            Msg("Moved", item_path, dest_path), F),
                 item_path, dest_path, F)

\* the loop iteration with the `continue' of line 178 forgotten
loop_body_no_continue(m, name, answer, F, seen) ==
    LET item_path == join(dir_entry, name)
    IN  IF is_file(m.fs, item_path)
        THEN IF file_has_expired(m.fs, item_path, F)
             THEN move_item(show_popup(m, item_path, answer, F), item_path, FALSE, F, seen)
             ELSE move_item(getmtime_fault(m, F), item_path, FALSE, F, seen)
        ELSE IF is_dir(m.fs, item_path)
        THEN move_item(m, item_path, TRUE, F, seen)
        ELSE m

\* lines 170-183: one iteration of the loop over os.scandir
loop_body(m, name, answer, F, seen) ==
    LET item_path == join(dir_entry, name)
    IN  IF is_file(m.fs, item_path)
        THEN IF file_has_expired(m.fs, item_path, F)
             THEN LET m1 == show_popup(m, item_path, answer, F)
                  IN  IF m1.keep THEN move_item(m1, item_path, FALSE, F, seen)
                      ELSE m1
             ELSE move_item(getmtime_fault(m, F), item_path, FALSE, F, seen)
        ELSE IF is_dir(m.fs, item_path)
        THEN move_item(m, item_path, TRUE, F, seen)
        ELSE m

(***************************************************************************)
(* The initial state: the window as __init__ leaves it (lines 17-23), over *)
(* a Downloads directory holding some of the entries below.                *)
(***************************************************************************)
downloads_path == << <<"Downloads">> >>

MissingDir == << <<"Missing">> >>

StartTime == 6 * SecondsPerMonth

OldTime == StartTime - 4 * SecondsPerMonth

RecentTime == StartTime - 24 * 60 * 60

PhotoName == <<"photo", ".", "JPG">>

NotesName == <<"notes", ".", "txt">>

StuffName == <<"stuff">>

ReadmeName == <<"README">>

OldLogName == <<LogPrefix, "old", ".", "txt">>

ImagesDir == join(downloads_path, DownloadedName("Images"))

FoldersDir == join(downloads_path, DownloadedName("Folders"))

File(data, t) == [kind |-> "file", data |-> data, mtime |-> t]

Under(d, name, node) == join(d, name) :> node

BaseFS == (<<>> :> DirNode) @@ (downloads_path :> DirNode)

\* the directories the behaviours start from
InitFS ==
    { BaseFS,
      BaseFS @@ Under(downloads_path, PhotoName, File("photo-new", OldTime))
             @@ Under(downloads_path, NotesName, File("notes", RecentTime)),
      BaseFS @@ Under(downloads_path, PhotoName, File("photo-new", OldTime))
             @@ (ImagesDir :> DirNode)
             @@ Under(ImagesDir, PhotoName, File("photo-old", OldTime)),
      BaseFS @@ Under(downloads_path, StuffName, DirNode)
             @@ Under(downloads_path, OldLogName, File("log", OldTime)),
      BaseFS @@ Under(downloads_path, ReadmeName, File("readme", RecentTime))
             @@ Under(downloads_path, StuffName, DirNode)
             @@ (FoldersDir :> DirNode)
             @@ Under(FoldersDir, StuffName, DirNode) }

Window ==
    /\ fs \in InitFS
    /\ trash = {}
    /\ dir_entry = downloads_path
    /\ test_mode = FALSE
    /\ months_threshold = 3
    /\ now = StartTime
    /\ log_file = generate_log_file(downloads_path, ToString(StartTime))
    /\ pc = "idle"
    /\ run = 0
    /\ pending = {}
    /\ log = {}
    /\ asked = {}
    /\ placed = {}
    /\ result = "none"
    /\ started = {}
    /\ q_item = <<>>
    /\ q_folder = FALSE
    /\ q_dest = <<>>

\* one press of the button, over any of the directories, with up to MaxFaults
\* failing calls
Init == Window /\ passes_left = 1 /\ faults = 0

\* MaxPasses presses of the button, in which no call fails
InitSession == Window /\ passes_left = MaxPasses /\ faults = MaxFaults

(***************************************************************************)
(* organize_downloads, the command of the "Scan & Organize" button: the    *)
(* early return, the start of the scan, one loop iteration per step, and   *)
(* the end of the scan.  The handler reads the three widgets; what the     *)
(* user has typed or ticked since the last pass is drawn when it starts.   *)
(***************************************************************************)
Leave(m) ==
    /\ fs' = m.fs
    /\ trash' = m.trash
    /\ log' = m.log
    /\ asked' = m.asked
    /\ placed' = m.placed
    /\ faults' = faults + m.nfault
    /\ faults' <= MaxFaults

\* the widgets as the handler finds them, at least a second after the last event
Widgets(dir, mode, months) ==
    /\ dir_entry' = dir
    /\ test_mode' = mode
    /\ months_threshold' = months
    /\ now' = now + 1
    /\ run' = run + 1
    /\ passes_left' = passes_left - 1
    /\ started' = started \cup {[run |-> run + 1, dir |-> dir, mode |-> mode,
                                  months |-> months]}

\* lines 157-161
OrganizeNotFound(dir, mode, months, F) ==
    /\ pc = "idle"
    /\ passes_left > 0
    /\ ~exists(fs, dir)
    /\ Widgets(dir, mode, months)
    /\ \E m \in {log_action(Machine(log_file, run + 1, {}, mode, now + 1),
                            Msg("ERROR: Directory not found", dir, <<>>), F)} :
          Leave(m)
    /\ result' = "NotFound"
    /\ UNCHANGED <<log_file, pc, pending, q_item, q_folder, q_dest>>

\* lines 157-168
OrganizeStart(dir, mode, months, F) ==
    /\ pc = "idle"
    /\ passes_left > 0
    /\ exists(fs, dir)
    /\ Widgets(dir, mode, months)
    /\ \E lf \in {generate_log_file(downloads_path, ToString(now + 1))} :
       \E m \in {log_action(Machine(lf, run + 1, {}, mode, now + 1),
                            Msg("Organization Started", <<>>, <<>>), F)} :
       \E ok \in {~m.raised /\ is_dir(m.fs, dir)} :
           /\ Leave(m)
           /\ log_file' = lf
           /\ pc' = IF ok THEN "scan" ELSE "idle"
           /\ result' = IF ok THEN "Running" ELSE "Error"
           /\ pending' = IF ok THEN scandir(m.fs, dir) ELSE {}
    /\ UNCHANGED <<q_item, q_folder, q_dest>>

\* lines 169-183, and the except of line 188 when the iteration raises
ScanEntry(name, answer, F, seen) ==
    /\ pc = "scan"
    /\ name \in pending
    /\ \E m \in {loop_body(Machine(log_file, run, pending \ {name}, test_mode, now),
                           name, answer, F, seen)} :
           /\ Leave(m)
           /\ pc' = IF m.raised THEN "idle" ELSE "scan"
           /\ result' = IF m.raised THEN "Error" ELSE "Running"
           /\ pending' = IF m.raised THEN {} ELSE m.pending
    /\ UNCHANGED <<dir_entry, test_mode, months_threshold, log_file, now, run,
                   started, passes_left, q_item, q_folder, q_dest>>

\* lines 185-189
OrganizeEnd(F) ==
    /\ pc = "scan"
    /\ pending = {}
    /\ \E m \in {log_action(Machine(log_file, run, {}, test_mode, now),
                            Msg("Organization Completed", <<>>, <<>>), F)} :
           /\ Leave(m)
           /\ result' = IF m.raised THEN "Error" ELSE "Completed"
    /\ pc' = "idle"
    /\ UNCHANGED <<dir_entry, test_mode, months_threshold, log_file, now, run,
                   started, passes_left, pending, q_item, q_folder, q_dest>>

\* the faults still within the budget
Count(F) ==
    (IF F.mtime THEN 1 ELSE 0) + (IF F.trash THEN 1 ELSE 0) + (IF F.mkdir THEN 1 ELSE 0)
    + (IF F.move THEN 1 ELSE 0) + (IF F.logAt > 0 THEN 1 ELSE 0)

FaultChoices == {F \in Faults : Count(F) <= MaxFaults - faults}

LogFaults == {F \in FaultChoices : Count(F) = (IF F.logAt = 1 THEN 1 ELSE 0)}

Dirs == {downloads_path, MissingDir}

Months == {0, 3}

Next ==
    \/ \E dir \in Dirs, mode \in BOOLEAN, months \in Months, F \in LogFaults :
          OrganizeNotFound(dir, mode, months, F)
    \/ \E dir \in Dirs, mode \in BOOLEAN, months \in Months, F \in LogFaults :
          OrganizeStart(dir, mode, months, F)
    \/ \E name \in pending, answer \in BOOLEAN, F \in FaultChoices, seen \in BOOLEAN :
          ScanEntry(name, answer, F, seen)
    \/ \E F \in LogFaults : OrganizeEnd(F)

Spec == Init /\ [][Next]_vars

SpecSession == InitSession /\ [][Next]_vars

(***************************************************************************)
(* get_destination_folder on its own: one call on any name of up to        *)
(* MaxNameLen tokens.                                                      *)
(***************************************************************************)
Tokens == {"a", ".", "jpg", "JPG", "Jpg", "txt", "TXT", "mp4", "xyz"}

Names == UNION {[1..k -> Tokens] : k \in 1..MaxNameLen}

InitClassify ==
    /\ fs = BaseFS
    /\ trash = {}
    /\ dir_entry \in Dirs
    /\ test_mode = FALSE
    /\ months_threshold = 3
    /\ now = StartTime
    /\ log_file = generate_log_file(downloads_path, ToString(StartTime))
    /\ pc = "idle"
    /\ run = 0
    /\ pending = {}
    /\ log = {}
    /\ asked = {}
    /\ placed = {}
    /\ result = "none"
    /\ faults = 0
    /\ started = {}
    /\ passes_left = 0
    /\ q_item \in Names
    /\ q_folder \in BOOLEAN
    /\ q_dest = <<>>

Classify ==
    /\ q_dest = <<>>
    /\ q_dest' = get_destination_folder(dir_entry, join(dir_entry, q_item), q_folder)
    /\ UNCHANGED <<fs, trash, dir_entry, test_mode, months_threshold, log_file, now,
                   pc, run, pending, log, asked, placed, result, faults, started,
                   passes_left, q_item, q_folder>>

NextClassify == Classify

SpecClassify == InitClassify /\ [][NextClassify]_vars

(***************************************************************************)
(* The properties.                                                         *)
(***************************************************************************)
Stale(p) == is_file(fs, p) /\ (now - fs[p].mtime) >= months_threshold * SecondsPerMonth

Handled == pending \ pending'

IsLogName(p) == Len(p) >= 1 /\ basename(p)[1] = "download_organizer_log_"

Moves(r) == {[src |-> l.msg.src, dst |-> l.msg.dst] : l \in {k \in log : k.run = r /\ k.msg.op = "Moved"}}

\* C1: in a live pass the popup is shown exactly for the files found stale,
\* never for a directory or a fresh file; only a file answered Delete reaches
\* the trash; a file answered Delete is not handed to move_item and nothing of
\* its name appears anywhere; every other file is handed to move_item.
C1_StepOK ==
    /\ pc # "scan" => asked' = asked /\ trash' = trash
    /\ pc = "scan" /\ ~test_mode =>
        /\ \A a \in asked' \ asked :
              /\ a.run = run
              /\ dirname(a.path) = dir_entry
              /\ basename(a.path) \in pending
              /\ Stale(a.path)
        /\ \A n \in Handled :
              (pc' = "scan" /\ faults' = faults /\ Stale(join(dir_entry, n)))
                  => \E a \in asked' \ asked : a.path = join(dir_entry, n)
        /\ \A t \in trash' \ trash :
              \E a \in asked' \ asked : a.path = t.path /\ a.delete
        /\ \A a \in asked' :
              a.delete =>
                  /\ [run |-> a.run, path |-> a.path] \notin placed'
                  /\ \A l \in log' : l.run = a.run /\ l.msg.op = "Moved" => l.msg.src # a.path
        /\ \A a \in asked' \ asked :
              a.delete => \A q \in DOMAIN fs' \ DOMAIN fs : q = log_file
        /\ \A n \in Handled :
              (pc' = "scan" /\ is_file(fs, join(dir_entry, n)))
                  => \/ \E a \in asked' \ asked : a.path = join(dir_entry, n) /\ a.delete
                     \/ [run |-> run, path |-> join(dir_entry, n)] \in placed'

C1_DecisionRouting == [][C1_StepOK]_vars

C1_Witness ==
    /\ ~test_mode
    /\ result = "Completed"
    /\ \E a \in asked, t \in trash, pl \in placed :
          /\ a.delete /\ t.path = a.path /\ a.path = join(downloads_path, PhotoName)
          /\ pl.path = join(downloads_path, NotesName)
    /\ is_file(fs, join(join(downloads_path, DownloadedName("Documents")), NotesName))
    /\ ~exists(fs, join(ImagesDir, PhotoName))

\* C2: a move into a folder that holds a file of the same name loses neither
\* file: whatever a file held before a step is still held by some file, or by
\* the trash, after it.
C2_NothingOverwritten ==
    [][\A p \in DOMAIN fs :
          fs[p].kind = "file" =>
              \/ \E q \in DOMAIN fs' : fs'[q].kind = "file" /\ fs'[q].data = fs[p].data
              \/ \E t \in trash' : t.data = fs[p].data]_vars

\* C3: no step of a pass in test mode changes the filesystem.
C3_SimulateChangesNothing == [][test_mode' => fs' = fs]_vars

\* C4: a directory goes to `Downloaded Folders'; a file whose name ends in a
\* registered extension, in any case, goes to that category's folder; any
\* other file goes to `Downloaded Others'.
CaseClasses == {{"jpg", "JPG", "Jpg"}, {"txt", "TXT"}}

SameIgnoringCase(t, u) == t = u \/ \E K \in CaseClasses : t \in K /\ u \in K

EndsIn(name, e) ==
    /\ Len(name) >= 3
    /\ name[Len(name) - 1] = "."
    /\ SameIgnoringCase(name[Len(name)], e[2])
    /\ \E i \in 1..(Len(name) - 2) : name[i] # "."

Registered == {"Images", "Music", "Videos", "Documents"}

C4_Destination ==
    q_dest # <<>> =>
        /\ q_folder => q_dest = join(dir_entry, <<"Downloaded ", "Folders">>)
        /\ ~q_folder =>
            /\ \A c \in Registered : \A e \in folder_mapping(c) :
                  EndsIn(q_item, e) => q_dest = join(dir_entry, <<"Downloaded ", c>>)
            /\ (\A c \in Registered : \A e \in folder_mapping(c) : ~EndsIn(q_item, e))
                  => q_dest = join(dir_entry, <<"Downloaded ", "Others">>)

C4_Witness ==
    /\ ~q_folder
    /\ q_item = <<"a", ".", "JPG">>
    /\ q_dest = join(dir_entry, <<"Downloaded ", "Images">>)

\* C5: an entry of the scanned directory named like a log file stays where it
\* is, is never offered to the popup and never reaches the trash.
C5_LogsLeftAlone ==
    [][/\ \A p \in DOMAIN fs : (dirname(p) = dir_entry /\ IsLogName(p)) => p \in DOMAIN fs'
       /\ \A a \in asked' : ~IsLogName(a.path)
       /\ \A t \in trash' : ~IsLogName(t.path)]_vars

\* C6: a file answered Delete whose send2trash failed is handed to move_item
\* like a kept file, and its move is logged.
C6_FailedTrashIsPlaced ==
    \A l \in log :
        (l.msg.op = "Error deleting file" /\ ~IsLogName(l.msg.src))
            => /\ [run |-> l.run, path |-> l.msg.src] \in placed
               /\ \E k \in log : k.run = l.run /\ k.msg.op = "Moved" /\ k.msg.src = l.msg.src

\* C7: whatever fails in a loop iteration, the entries still to come stay to
\* be processed: a step of the scan takes one entry at most off the list.
C7_RemainingEntriesProcessed ==
    [][pc = "scan" => Cardinality(pending \ pending') <= 1]_vars

\* C8: a pass over a directory that does not exist ends at once and changes
\* nothing: no prompt, no move, no trash, and no file or directory created.
NotFoundStep == result' = "NotFound" /\ run' = run + 1

C8_NotFoundChangesNothing ==
    [][NotFoundStep =>
          /\ fs' = fs
          /\ asked' = asked /\ trash' = trash /\ placed' = placed
          /\ pending' = {} /\ pc' = "idle"]_vars

\* C8 as amended: such a pass prompts, moves, trashes and enumerates nothing and
\* creates no directory; in test mode the filesystem is unchanged, and in live
\* mode the one change is the error line appended to self.log_file.
C8_NotFoundOnlyLogs ==
    [][NotFoundStep =>
          /\ asked' = asked /\ trash' = trash /\ placed' = placed
          /\ pending' = {} /\ pc' = "idle"
          /\ \A p \in (DOMAIN fs \cup DOMAIN fs') \ {log_file} :
                p \in DOMAIN fs /\ p \in DOMAIN fs' /\ fs'[p] = fs[p]
          /\ log_file \in DOMAIN fs' => fs'[log_file].kind = "file"
          /\ test_mode' => fs' = fs
          /\ \A l \in log' \ log :
                l.msg = [op |-> "ERROR: Directory not found", src |-> dir_entry', dst |-> <<>>]]_vars

C8_Witness ==
    /\ result = "NotFound"
    /\ ~test_mode
    /\ ~exists(fs, dir_entry)
    /\ \E l \in log : l.msg.op = "ERROR: Directory not found" /\ is_file(fs, l.file)
    /\ asked = {} /\ placed = {} /\ trash = {}

\* C9: two completed passes in test mode over the same directory, with the same
\* threshold and the same answers, plan the same moves.
Pass(r) == CHOOSE c \in started : c.run = r

CompletedPass(r) == \E l \in log : l.run = r /\ l.msg.op = "Organization Completed"

SameAnswers ==
    \A a \in asked, b \in asked : a.path = b.path => a.delete = b.delete

C9_SimulateTwiceSamePlan ==
    (/\ run = 2 /\ pc = "idle"
     /\ CompletedPass(1) /\ CompletedPass(2)
     /\ Pass(1).mode /\ Pass(2).mode
     /\ Pass(1).dir = Pass(2).dir /\ Pass(1).months = Pass(2).months
     /\ SameAnswers)
        => Moves(1) = Moves(2)

\* C10: over live passes, a folder that received the moves of an earlier pass
\* is still in place after every step of a later one.
C10_DestinationsStay ==
    [][(\A c \in started' : ~c.mode) =>
          \A l \in log :
              (l.run < run /\ l.msg.op = "Moved" /\ is_dir(fs, dirname(l.msg.dst)))
                  => is_dir(fs', dirname(l.msg.dst))]_vars

=============================================================================
